---- MODULE Spec2Model ----
(***************************************************************************)
(* SCF::minimize, SCF::mixPlain and SCF::mixDIIS of                        *)
(* jdftx/electronic/SCF.cpp as a state machine.                            *)
(*                                                                         *)
(* A DataRptrCollection is modelled by one sample of one component: a      *)
(* field is a single number, integral(a*b) is the product a*b.  Numbers    *)
(* are exact rationals <<numerator, denominator>>; a denominator of 0 is   *)
(* a non-finite double (the result of a division by zero and everything    *)
(* computed from it).                                                      *)
(***************************************************************************)
EXTENDS Integers, Sequences, FiniteSets, TLC

(* ------------------------------ bounds --------------------------------- *)
MaxIter == 3       \* largest nIterations of the general specification
MaxHist == 2       \* largest history depth of the general specification
MaxVal == 1        \* fields returned by the solver lie in 0..MaxVal
NStates == 2       \* eInfo.nStates

(* --------------------------- exact arithmetic -------------------------- *)
Abs(x) == IF x < 0 THEN -x ELSE x

RECURSIVE GCD(_, _)
GCD(a, b) == IF b = 0 THEN a ELSE GCD(b, a % b)

NonFinite == <<0, 0>>
Unset == <<1, 0>>
IsFinite(x) == x[2] # 0

Rat(n, d) ==
    IF d = 0 THEN NonFinite
    ELSE LET g == GCD(Abs(n), Abs(d))
             s == IF d < 0 THEN -1 ELSE 1
         IN  <<(s * n) \div g, (s * d) \div g>>

R(i) == <<i, 1>>

(* the operations on doubles; each evaluates its operands once *)
Once(S) == CHOOSE r \in S : TRUE

RAdd(x, y) ==
    Once({IF IsFinite(a) /\ IsFinite(b)
          THEN Rat(a[1] * b[2] + b[1] * a[2], a[2] * b[2])
          ELSE NonFinite : a \in {x}, b \in {y}})

RSub(x, y) ==
    Once({IF IsFinite(a) /\ IsFinite(b)
          THEN Rat(a[1] * b[2] - b[1] * a[2], a[2] * b[2])
          ELSE NonFinite : a \in {x}, b \in {y}})

RMul(x, y) ==
    Once({IF IsFinite(a) /\ IsFinite(b)
          THEN Rat(a[1] * b[1], a[2] * b[2])
          ELSE NonFinite : a \in {x}, b \in {y}})

RDiv(x, y) ==
    Once({IF IsFinite(a) /\ IsFinite(b) /\ b[1] # 0
          THEN Rat(a[1] * b[2], a[2] * b[1])
          ELSE NonFinite : a \in {x}, b \in {y}})

RGeqZero(x) == IsFinite(x) /\ x[1] >= 0

RECURSIVE RSum(_, _)
RSum(f, n) == IF n = 0 THEN R(0) ELSE RAdd(RSum(f, n - 1), f[n])

(* ------------------------------- state --------------------------------- *)
VARIABLES
    rp,                 \* ResidualMinimizerParams: mixedVariable, vectorExtrapolationMethod,
                        \*   history, nIterations, energyDiffThreshold
    needsKEdensity,     \* e.exCorr.needsKEdensity()
    mixFraction,        \* the mixFraction argument of mixPlain
    eVars,              \* e.eVars: the fields n, tau, Vscloc, Vtau
    fixed_n,            \* e.cntrl.fixed_n
    pastVariables_n, pastVariables_tau, pastResiduals,
    overlap,            \* SCF::overlap, indexed from 0
    E, Eprev, scfCounter,
    q,                  \* the state index of the band loop
    norm,               \* the local norm of mixDIIS, as last computed
    weight,             \* the weights of the last extrapolation of mixDIIS, by j
    nDiag,              \* number of calls of matrix::diagonalize so far
    nPasses,            \* number of fixed-Hamiltonian solve passes begun so far
    convergedLog,       \* "Residual Minimization Converged" has been printed
    pc,                 \* position inside SCF::minimize
    overlapFresh,       \* the entries of overlap set since pastResiduals was last empty
    solved,             \* the states q of the BandMinimizer solves of this pass, in order
    nEdensity,          \* number of calls of EdensityAndVscloc made by the loop so far
    outputs,            \* the mixed variable as each iteration's energy evaluation left it
    snapIter, resIter   \* the iteration that cached each snapshot, each residual

vars == <<rp, needsKEdensity, mixFraction, eVars, fixed_n, pastVariables_n,
          pastVariables_tau, pastResiduals, overlap, E, Eprev, scfCounter, q,
          norm, weight, nDiag, nPasses, convergedLog, pc, overlapFresh,
          solved, nEdensity, outputs, snapIter, resIter>>

config == <<rp, needsKEdensity, mixFraction>>
histories == <<pastVariables_n, pastVariables_tau, pastResiduals>>
trace == <<overlapFresh, solved, nEdensity, outputs, snapIter, resIter>>

FieldVals == {R(i) : i \in 0..MaxVal}
OtherVals == {R(0)}
EvecComponents == {-1, 0, 1}
EnergyVals == {0, 1}
UninitializedE == {-1, 0, 1}
MixFractions == {<<1, 2>>, <<1, 1>>}

(* variable_n and variable_tau are references to members of eVars *)
variable_n == IF rp.mixedVariable = "density" THEN "n" ELSE "Vscloc"
variable_tau == IF rp.mixedVariable = "density" THEN "tau" ELSE "Vtau"
other_n == IF rp.mixedVariable = "density" THEN "Vscloc" ELSE "n"
other_tau == IF rp.mixedVariable = "density" THEN "Vtau" ELSE "tau"

front(s) == s[1]

(* std::vector::back *)
back(s) == s[Len(s)]

Params ==
    [mixedVariable : {"density", "potential"},
     vectorExtrapolationMethod : {"plainMixing", "DIIS"},
     history : 1..MaxHist,
     nIterations : 0..MaxIter,
     energyDiffThreshold : {1}]

SCF(params, ke, fractions) ==
    /\ rp \in params
    /\ needsKEdensity \in ke
    /\ mixFraction \in fractions
    /\ eVars = [n |-> R(0), tau |-> R(0), Vscloc |-> R(0), Vtau |-> R(0)]
    /\ fixed_n = FALSE
    /\ pastVariables_n = <<>>
    /\ pastVariables_tau = <<>>
    /\ pastResiduals = <<>>
    /\ overlap = [i \in 0..(rp.history - 1), j \in 0..(rp.history - 1) |-> Unset]
    /\ E \in UninitializedE
    /\ Eprev = 0
    /\ scfCounter = 0
    /\ q = 0
    /\ norm = Unset
    /\ weight = <<>>
    /\ nDiag = 0
    /\ nPasses = 0
    /\ convergedLog = FALSE
    /\ pc = "start"
    /\ overlapFresh = {}
    /\ solved = <<>>
    /\ nEdensity = 0
    /\ outputs = <<>>
    /\ snapIter = <<>>
    /\ resIter = <<>>

Init == SCF(Params, BOOLEAN, MixFractions)

(* the fields an energy evaluation with fixed_n = false may leave in eVars: the
   mixed pair is (v, top - v) for v in mixedVals, the other pair (o, o + 1) for o in
   otherVals; the kinetic fields stay 0 when the functional needs none *)
SolverOutputs(mixedVals, otherVals) ==
    LET top == CHOOSE m \in mixedVals : \A v \in mixedVals : RGeqZero(RSub(m, v))
        pair(v, o) == (variable_n :> v) @@ (other_n :> o)
                      @@ (variable_tau :> IF needsKEdensity THEN RSub(top, v) ELSE R(0))
                      @@ (other_tau :> IF needsKEdensity THEN RAdd(o, R(1)) ELSE R(0))
    IN  {pair(v, o) : v \in mixedVals, o \in otherVals}

(* lines 37-43: energy of the initial guess *)
InitialEnergy(mixedVals, otherVals) ==
    /\ pc = "start"
    /\ eVars' \in SolverOutputs(mixedVals, otherVals)
    /\ fixed_n' = TRUE
    /\ pc' = "for"
    /\ UNCHANGED <<config, trace, histories, overlap, E, Eprev, scfCounter, q, norm, weight,
                   nDiag, nPasses, convergedLog>>

LoopConditionOffByOne == scfCounter <= rp.nIterations

(* line 57: the loop condition *)
LoopCondition == scfCounter < rp.nIterations

LoopTest ==
    /\ pc = "for"
    /\ pc' = IF LoopCondition THEN "cache" ELSE "done"
    /\ UNCHANGED <<config, trace, eVars, fixed_n, histories, overlap, E, Eprev, scfCounter, q,
                   norm, weight, nDiag, nPasses, convergedLog>>

HistoryFullLate == (Len(pastResiduals) > rp.history) \/ (Len(pastVariables_n) > rp.history)

(* line 60: the test of "clear history if full" *)
HistoryFull == (Len(pastResiduals) >= rp.history) \/ (Len(pastVariables_n) >= rp.history)

slidingWindow(past) == Tail(past)

(* lines 61-64: what the reset leaves of a history sequence *)
cleared(past) == <<>>

(* lines 59-70: clear the history if it is full, then cache the old energy and
   variables *)
CacheOld ==
    /\ pc = "cache"
    /\ Eprev' = E
    /\ pastVariables_n' =
          Append(IF HistoryFull THEN cleared(pastVariables_n) ELSE pastVariables_n,
                 eVars[variable_n])
    /\ pastVariables_tau' =
          IF needsKEdensity
          THEN Append(IF HistoryFull THEN cleared(pastVariables_tau)
                      ELSE pastVariables_tau,
                      eVars[variable_tau])
          ELSE pastVariables_tau
    /\ pastResiduals' =
          IF HistoryFull /\ rp.vectorExtrapolationMethod = "DIIS"
          THEN cleared(pastResiduals) ELSE pastResiduals
    /\ snapIter' = Append(IF HistoryFull THEN cleared(snapIter) ELSE snapIter, scfCounter)
    /\ resIter' =
          IF HistoryFull /\ rp.vectorExtrapolationMethod = "DIIS"
          THEN cleared(resIter) ELSE resIter
    /\ overlapFresh' = IF pastResiduals' = <<>> THEN {} ELSE overlapFresh
    /\ pc' = "freeze"
    /\ UNCHANGED <<config, eVars, fixed_n, overlap, E, scfCounter, q, norm, weight,
                   nDiag, nPasses, convergedLog, solved, nEdensity, outputs>>

FreezeForgotten ==
    /\ pc = "freeze"
    /\ fixed_n' = FALSE
    /\ q' = 0
    /\ solved' = <<>>
    /\ nPasses' = nPasses + 1
    /\ pc' = "bands"
    /\ UNCHANGED <<config, overlapFresh, nEdensity, outputs, snapIter, resIter, eVars, histories, overlap, E, Eprev, scfCounter,
                   norm, weight, nDiag, convergedLog>>

(* line 73 and the initialisation of the band loop in line 75 *)
Freeze ==
    /\ pc = "freeze"
    /\ fixed_n' = TRUE
    /\ q' = 0
    /\ solved' = <<>>
    /\ nPasses' = nPasses + 1
    /\ pc' = "bands"
    /\ UNCHANGED <<config, overlapFresh, nEdensity, outputs, snapIter, resIter, eVars, histories, overlap, E, Eprev, scfCounter, norm,
                   weight, nDiag, convergedLog>>

(* lines 75-79: one pass of the band loop *)
SolveBand ==
    /\ pc = "bands"
    /\ q < NStates
    /\ q' = q + 1
    /\ solved' = Append(solved, q)
    /\ UNCHANGED <<config, overlapFresh, nEdensity, outputs, snapIter, resIter, eVars, fixed_n, histories, overlap, E, Eprev, scfCounter,
                   norm, weight, nDiag, nPasses, convergedLog, pc>>

(* line 81, taken when the band loop ends *)
Unfreeze ==
    /\ pc = "bands"
    /\ ~(q < NStates)
    /\ fixed_n' = FALSE
    /\ pc' = "energy"
    /\ UNCHANGED <<config, trace, eVars, histories, overlap, E, Eprev, scfCounter, q, norm,
                   weight, nDiag, nPasses, convergedLog>>

(* lines 83-85: new density and energy *)
ComputeEnergy(mixedVals, otherVals) ==
    /\ pc = "energy"
    /\ eVars' \in SolverOutputs(mixedVals, otherVals)
    /\ E' \in EnergyVals
    /\ outputs' = Append(outputs, eVars'[variable_n])
    /\ pc' = "check"
    /\ UNCHANGED <<config, overlapFresh, solved, nEdensity, snapIter, resIter, fixed_n, histories, overlap, Eprev, scfCounter, q, norm,
                   weight, nDiag, nPasses, convergedLog>>

(* line 90: fabs(E-Eprev) < rp.energyDiffThreshold *)
EnergyConverged == Abs(E - Eprev) < rp.energyDiffThreshold

(* lines 89-95: the convergence exit, or on to the mixing *)
CheckConvergence ==
    /\ pc = "check"
    /\ IF EnergyConverged
       THEN convergedLog' = TRUE /\ pc' = "done"
       ELSE convergedLog' = convergedLog /\ pc' = "mix"
    /\ UNCHANGED <<config, trace, eVars, fixed_n, histories, overlap, E, Eprev, scfCounter, q,
                   norm, weight, nDiag, nPasses>>

(* lines 111-119: SCF::mixPlain on the fields ev, as a new value of e.eVars *)
mixPlain(ev, prevVariable_n, prevVariable_tau) ==
    LET one_minus == RSub(R(1), mixFraction)
        new_n == RAdd(RMul(mixFraction, ev[variable_n]), RMul(one_minus, prevVariable_n))
        new_tau == RAdd(RMul(mixFraction, ev[variable_tau]),
                        RMul(one_minus, prevVariable_tau))
        mixed_n == [ev EXCEPT ![variable_n] = new_n]
    IN  IF needsKEdensity THEN [mixed_n EXCEPT !.tau = new_tau] ELSE mixed_n

(* the reference pastVariables_tau.back() handed to mixPlain: it dangles, and is
   never read, when no kinetic field is cached *)
backTau == IF pastVariables_tau = <<>> THEN Unset ELSE back(pastVariables_tau)

(* lines 96-97: plain mixing with the snapshot of this iteration *)
MixPlainCall ==
    /\ pc = "mix"
    /\ rp.vectorExtrapolationMethod = "plainMixing"
    /\ eVars' = mixPlain(eVars, back(pastVariables_n), backTau)
    /\ pc' = "recompute"
    /\ UNCHANGED <<config, trace, fixed_n, histories, overlap, E, Eprev, scfCounter, q, norm,
                   weight, nDiag, nPasses, convergedLog>>

(* lines 128-131 of SCF::mixDIIS: cache the current residual *)
DIISCacheResidual ==
    /\ pc = "mix"
    /\ rp.vectorExtrapolationMethod = "DIIS"
    /\ pastResiduals' = Append(pastResiduals,
                               RSub(eVars[variable_n], back(pastVariables_n)))
    /\ resIter' = Append(resIter, scfCounter)
    /\ pc' = "overlap"
    /\ UNCHANGED <<config, overlapFresh, solved, nEdensity, outputs, snapIter, eVars, fixed_n, pastVariables_n, pastVariables_tau, overlap,
                   E, Eprev, scfCounter, q, norm, weight, nDiag, nPasses,
                   convergedLog>>

(* lines 28-29: overlapResiduals on collections of one component *)
overlapResiduals(r1, r2) == RMul(r1, r2)

UpdatedOverlapUpperOnly ==
    LET ndim == Len(pastResiduals)
    IN  [i \in 0..(rp.history - 1), j \in 0..(rp.history - 1) |->
            IF j = ndim - 1 /\ i < ndim
            THEN overlapResiduals(pastResiduals[i + 1], back(pastResiduals))
            ELSE overlap[i, j]]

(* lines 133-141: overlap of the new residual with the older ones *)
UpdatedOverlap ==
    LET ndim == Len(pastResiduals)
    IN  [i \in 0..(rp.history - 1), j \in 0..(rp.history - 1) |->
            IF j = ndim - 1 /\ i < ndim
            THEN overlapResiduals(pastResiduals[i + 1], back(pastResiduals))
            ELSE IF i = ndim - 1 /\ j < ndim - 1
            THEN overlapResiduals(pastResiduals[j + 1], back(pastResiduals))
            ELSE overlap[i, j]]

(* the entries lines 136-140 set: column ndim-1 down to the diagonal, and row
   ndim-1 left of it *)
OverlapSet ==
    LET ndim == Len(pastResiduals)
    IN  {<<j, ndim - 1>> : j \in 0..(ndim - 1)} \cup {<<ndim - 1, j>> : j \in 0..(ndim - 2)}

DIISOverlap ==
    /\ pc = "overlap"
    /\ overlap' = UpdatedOverlap
    /\ overlapFresh' = overlapFresh \cup OverlapSet
    /\ pc' = "branch"
    /\ UNCHANGED <<config, eVars, fixed_n, histories, E, Eprev, scfCounter, q, norm,
                   weight, nDiag, nPasses, convergedLog, solved, nEdensity, outputs,
                   snapIter, resIter>>

NotFullYetInverted == Len(pastResiduals) > rp.history

OnlyOneResidual == Len(pastResiduals) = 1

(* line 144: the test that sends mixDIIS to plain mixing *)
NotFullYet == Len(pastResiduals) # rp.history

(* lines 143-147: plain mixing inside mixDIIS *)
DIISFallback ==
    /\ pc = "branch"
    /\ NotFullYet
    /\ eVars' = mixPlain(eVars, back(pastVariables_n), backTau)
    /\ pc' = "recompute"
    /\ UNCHANGED <<config, trace, fixed_n, histories, overlap, E, Eprev, scfCounter, q, norm,
                   weight, nDiag, nPasses, convergedLog>>

(* ---------------- matrix::diagonalize, column 0 of the eigenvectors ------------- *)
RECURSIVE SumTo(_, _)
SumTo(f, n) == IF n = 0 THEN R(0) ELSE RAdd(SumTo(f, n - 1), f[n - 1])

(* line 150: thisOverlap = overlap(0, ndim, 0, ndim) *)
thisOverlap(ndim) == [i \in 0..(ndim - 1), j \in 0..(ndim - 1) |-> overlap[i, j]]

EvecCandidates(n) ==
    {v \in [0..(n - 1) -> EvecComponents] : \E i \in 0..(n - 1) : v[i] # 0}

MatVec(M, v, n) ==
    [i \in 0..(n - 1) |-> SumTo([j \in 0..(n - 1) |-> RMul(M[i, j], R(v[j]))], n)]

Dot(u, w, n) == SumTo([j \in 0..(n - 1) |-> RMul(u[j], w[j])], n)

Rayleigh(M, v, n) ==
    LET rv == [j \in 0..(n - 1) |-> R(v[j])]
    IN  RDiv(Dot(rv, MatVec(M, v, n), n), Dot(rv, rv, n))

IsEigenvector(M, v, n) ==
    LET w == MatVec(M, v, n)
        rv == [j \in 0..(n - 1) |-> R(v[j])]
        lambda == RDiv(Dot(rv, w, n), Dot(rv, rv, n))
    IN  \A i \in 0..(n - 1) : w[i] = RMul(lambda, rv[i])

RECURSIVE SortedSeq(_)
SortedSeq(S) ==
    IF S = {} THEN <<>>
    ELSE LET m == CHOOSE x \in S : \A y \in S : x <= y
         IN  <<m>> \o SortedSeq(S \ {m})

Without(s, k) == [i \in 1..(Len(s) - 1) |-> IF i < k THEN s[i] ELSE s[i + 1]]

RECURSIVE Det(_, _, _)
Det(A, rows, cols) ==
    IF rows = <<>> THEN R(1)
    ELSE SumTo([k \in 0..(Len(cols) - 1) |->
                   RMul(RMul(R(IF k % 2 = 0 THEN 1 ELSE -1), A[rows[1], cols[k + 1]]),
                        Det(A, Tail(rows), Without(cols, k + 1)))],
               Len(cols))

PositiveSemidefinite(A, n) ==
    \A S \in (SUBSET (0..(n - 1))) \ {{}} : RGeqZero(Det(A, SortedSeq(S), SortedSeq(S)))

Shifted(M, lambda, n) ==
    [i \in 0..(n - 1), j \in 0..(n - 1) |->
        IF i = j THEN RSub(M[i, j], lambda) ELSE M[i, j]]

(* eigenvectors of the lowest eigenvalue among the candidate directions: lambda is
   the lowest eigenvalue of M exactly when M - lambda is positive semidefinite *)
LowestAmong(M, n, eigenvectors) ==
    Once({{v \in eigenvectors : Rayleigh(M, v, n) \in lowest} :
             lowest \in {{lambda \in {Rayleigh(M, v, n) : v \in eigenvectors} :
                             PositiveSemidefinite(Shifted(M, lambda, n), n)}}})

LowestEigenvectors(M, n) ==
    Once({LowestAmong(M, n, eigenvectors) :
             eigenvectors \in {{v \in EvecCandidates(n) : IsEigenvector(M, v, n)}}})

(* column 0 of overlapEvecs, up to its length: an eigenvector of the lowest
   eigenvalue; any direction when none of the candidates is one *)
Column0(M, n) ==
    Once({IF exact # {} THEN exact ELSE EvecCandidates(n) :
             exact \in {IF \A i, j \in 0..(n - 1) : IsFinite(M[i, j])
                        THEN LowestEigenvectors(M, n) ELSE {}}})

normSkippingFirst(evec, ndim) ==
    RSub(SumTo([j \in 0..(ndim - 1) |-> R(evec[j])], ndim), R(evec[0]))

(* lines 163-166: norm, the sum of the components of column 0 *)
normOf(evec, ndim) == SumTo([j \in 0..(ndim - 1) |-> R(evec[j])], ndim)

(* line 177: weight of snapshot j *)
weightOf(evec, ndim, j) == RDiv(R(evec[j]), normOf(evec, ndim))

(* lines 172-183: a field zeroed and then summed over the weighted snapshots *)
RECURSIVE accumulate(_, _, _, _)
accumulate(start, w, past, n) ==
    IF n = 0 THEN start
    ELSE RAdd(accumulate(start, w, past, n - 1), RMul(w[n], past[n]))

extrapolated(ev, w, ndim) ==
    LET new_n == accumulate(RMul(ev[variable_n], R(0)), w, pastVariables_n, ndim)
        new_tau == accumulate(RMul(ev[variable_tau], R(0)), w, pastVariables_tau, ndim)
        with_n == [ev EXCEPT ![variable_n] = new_n]
    IN  IF needsKEdensity THEN [with_n EXCEPT ![variable_tau] = new_tau] ELSE with_n

(* lines 149-183: diagonalize, normalize, update the variables *)
DIISExtrapolate ==
    /\ pc = "branch"
    /\ ~NotFullYet
    /\ LET ndim == Len(pastResiduals)
       IN  \E evec \in Column0(thisOverlap(ndim), ndim) :
              /\ norm' = normOf(evec, ndim)
              /\ weight' = [j \in 1..ndim |-> weightOf(evec, ndim, j - 1)]
              /\ eVars' = extrapolated(eVars, weight', ndim)
    /\ nDiag' = nDiag + 1
    /\ pc' = "recompute"
    /\ UNCHANGED <<config, trace, fixed_n, histories, overlap, E, Eprev, scfCounter, q,
                   nPasses, convergedLog>>

RecomputeAlways(otherVals) ==
    /\ pc = "recompute"
    /\ \E o \in otherVals :
          eVars' = [eVars EXCEPT !.Vscloc = o,
                                 !.Vtau = IF needsKEdensity THEN RAdd(o, R(1)) ELSE R(0)]
    /\ nEdensity' = nEdensity + 1
    /\ pc' = "next"
    /\ UNCHANGED <<config, overlapFresh, solved, outputs, snapIter, resIter, fixed_n, histories, overlap, E, Eprev,
                   scfCounter, q, norm, weight, nDiag, nPasses, convergedLog>>

(* lines 103-105: Vscloc from the mixed density *)
Recompute(otherVals) ==
    /\ pc = "recompute"
    /\ IF rp.mixedVariable = "density"
       THEN /\ \E o \in otherVals :
                  eVars' = [eVars EXCEPT !.Vscloc = o,
                                         !.Vtau = IF needsKEdensity THEN RAdd(o, R(1))
                                                  ELSE R(0)]
            /\ nEdensity' = nEdensity + 1
       ELSE eVars' = eVars /\ nEdensity' = nEdensity
    /\ pc' = "next"
    /\ UNCHANGED <<config, overlapFresh, solved, outputs, snapIter, resIter, fixed_n, histories, overlap, E, Eprev,
                   scfCounter, q, norm, weight, nDiag, nPasses, convergedLog>>

(* line 57: scfCounter++ *)
Increment ==
    /\ pc = "next"
    /\ scfCounter' = scfCounter + 1
    /\ pc' = "for"
    /\ UNCHANGED <<config, trace, eVars, fixed_n, histories, overlap, E, Eprev, q, norm,
                   weight, nDiag, nPasses, convergedLog>>

Next ==
    \/ InitialEnergy(FieldVals, OtherVals)
    \/ LoopTest
    \/ CacheOld
    \/ Freeze
    \/ SolveBand
    \/ Unfreeze
    \/ ComputeEnergy(FieldVals, OtherVals)
    \/ CheckConvergence
    \/ MixPlainCall
    \/ DIISCacheResidual
    \/ DIISOverlap
    \/ DIISFallback
    \/ DIISExtrapolate
    \/ Recompute(OtherVals)
    \/ Increment

Spec == Init /\ [][Next]_vars

(* the single thread of SCF::minimize keeps running, and every call returns *)
FairSpec == Spec /\ WF_vars(Next)

(* a run of mixDIIS on a full history of three: history 3, three iterations,
   density mixing without kinetic field, solver fields in 0..3 *)
PulayVals == {R(0), R(1), R(2), R(3)}

PulayParams ==
    {[mixedVariable |-> "density", vectorExtrapolationMethod |-> "DIIS",
      history |-> 3, nIterations |-> 3, energyDiffThreshold |-> 1]}

InitPulay == SCF(PulayParams, {FALSE}, MixFractions)

NextPulay ==
    \/ InitialEnergy(PulayVals, OtherVals)
    \/ LoopTest
    \/ CacheOld
    \/ Freeze
    \/ SolveBand
    \/ Unfreeze
    \/ ComputeEnergy(PulayVals, OtherVals)
    \/ CheckConvergence
    \/ DIISCacheResidual
    \/ DIISOverlap
    \/ DIISFallback
    \/ DIISExtrapolate
    \/ Recompute(OtherVals)
    \/ Increment

SpecPulay == InitPulay /\ [][NextPulay]_vars

(* runs long enough to reset a history of two and to fill it again: three
   iterations, history 1 or 2, solver fields in 0..2 *)
RestartVals == {R(0), R(1), R(2)}

RestartParams ==
    [mixedVariable : {"density", "potential"},
     vectorExtrapolationMethod : {"plainMixing", "DIIS"},
     history : {1, 2},
     nIterations : {3},
     energyDiffThreshold : {1}]

InitRestart == SCF(RestartParams, BOOLEAN, MixFractions)

NextRestart ==
    \/ InitialEnergy(RestartVals, OtherVals)
    \/ LoopTest
    \/ CacheOld
    \/ Freeze
    \/ SolveBand
    \/ Unfreeze
    \/ ComputeEnergy(RestartVals, OtherVals)
    \/ CheckConvergence
    \/ MixPlainCall
    \/ DIISCacheResidual
    \/ DIISOverlap
    \/ DIISFallback
    \/ DIISExtrapolate
    \/ Recompute(OtherVals)
    \/ Increment

SpecRestart == InitRestart /\ [][NextRestart]_vars

(* ------------------------------- claims -------------------------------- *)
(* mixFraction * new + (1 - mixFraction) * old *)
LinearMix(new, old) ==
    RAdd(RMul(mixFraction, new), RMul(RSub(R(1), mixFraction), old))

(* C1: the convergence exit is never taken on the first outer iteration
   (scfCounter = 0), whatever E and Eprev hold initially. *)
C1_NoExitOnFirstIteration == convergedLog => scfCounter >= 1

PassesWithinBudget ==
    /\ nPasses <= rp.nIterations
    /\ scfCounter <= rp.nIterations
    /\ (pc = "done" /\ convergedLog) => nPasses = scfCounter + 1
    /\ (pc = "done" /\ ~convergedLog) =>
          (scfCounter = rp.nIterations /\ nPasses = rp.nIterations)

LoopEndsExactlyWhenDue ==
    /\ (pc = "check" /\ Abs(E - Eprev) < rp.energyDiffThreshold) => pc' = "done"
    /\ (pc = "for" /\ scfCounter >= rp.nIterations) => pc' = "done"
    /\ (pc # "done" /\ pc' = "done") =>
          \/ pc = "check" /\ Abs(E - Eprev) < rp.energyDiffThreshold
          \/ pc = "for" /\ scfCounter = rp.nIterations

(* C2: the loop ends after at most nIterations passes: the number of solve passes
   never exceeds nIterations; the loop is left exactly by the convergence exit of
   the pass numbered scfCounter or by the loop test after nIterations passes,
   and both leave it at once. *)
C2_TerminatesWithinBudget == []PassesWithinBudget /\ [][LoopEndsExactlyWhenDue]_vars

(* every run in which the calls return reaches the end of SCF::minimize *)
EventuallyDone == <>(pc = "done")

C2_BudgetExhausted ==
    pc = "done" /\ ~convergedLog /\ rp.nIterations = MaxIter /\ nPasses = MaxIter

InitialResidualNontrivial ==
    /\ pastVariables_n # <<>>
    /\ eVars[variable_n] # pastVariables_n[1]

(* C3: a run with nIterations = 1 whose first pass changes the field (a
   non-trivial initial residual) ends after exactly one pass and does not report
   convergence. *)
C3_NonConvergenceReported ==
    (pc = "done" /\ rp.nIterations = 1 /\ InitialResidualNontrivial) =>
        (nPasses = 1 /\ ~convergedLog)

(* C4: with history 1, mixDIIS leaves in the mixed variable what mixPlain would:
   mixFraction * new + (1 - mixFraction) * old. *)
C4_DepthOneIsPlainMixing ==
    [][(pc = "branch" /\ rp.history = 1) =>
          eVars'[variable_n] = LinearMix(eVars[variable_n], back(pastVariables_n))]_vars

(* C5: plain mixing sets the mixed variable to mixFraction * new +
   (1 - mixFraction) * old, the kinetic one of the same pair exactly when the
   functional needs the kinetic density, and changes no other field. *)
C5_PlainMixingMixesTheVariablePair ==
    [][(pc = "mix" /\ rp.vectorExtrapolationMethod = "plainMixing") =>
          eVars' = [eVars EXCEPT
                       ![variable_n] = LinearMix(@, back(pastVariables_n)),
                       ![variable_tau] = IF needsKEdensity
                                         THEN LinearMix(@, back(pastVariables_tau))
                                         ELSE @]]_vars

(* C6: none of pastVariables_n, pastVariables_tau, pastResiduals is ever longer
   than the history depth. *)
C6_HistoryWithinDepth ==
    /\ Len(pastVariables_n) <= rp.history
    /\ Len(pastVariables_tau) <= rp.history
    /\ Len(pastResiduals) <= rp.history

C6_HistoryFilled ==
    /\ rp.history = MaxHist
    /\ Len(pastVariables_n) = rp.history
    /\ Len(pastVariables_tau) = rp.history
    /\ Len(pastResiduals) = rp.history

(* C7: caching a snapshot into a history that holds history-depth entries leaves
   only the new snapshot; into a shorter one, it keeps the entries in order and
   adds the new one at the end. *)
C7_EvictionIsFullReset ==
    [][pc = "cache" =>
          /\ pastVariables_n' =
                IF Len(pastVariables_n) >= rp.history
                THEN <<eVars[variable_n]>>
                ELSE Append(pastVariables_n, eVars[variable_n])
          /\ needsKEdensity =>
                pastVariables_tau' =
                    IF Len(pastVariables_tau) >= rp.history
                    THEN <<eVars[variable_tau]>>
                    ELSE Append(pastVariables_tau, eVars[variable_tau])]_vars

C7_ResetHappened ==
    /\ pc = "freeze"
    /\ rp.history = MaxHist
    /\ scfCounter = rp.history
    /\ Len(pastVariables_n) = 1
    /\ needsKEdensity /\ Len(pastVariables_tau) = 1

IdenticalResiduals ==
    /\ Len(pastResiduals) = 3
    /\ pastResiduals[1] = pastResiduals[2]
    /\ pastResiduals[2] = pastResiduals[3]
    /\ IsFinite(pastResiduals[1]) /\ pastResiduals[1] # R(0)

(* C8: mixDIIS on three identical residuals divides by a non-zero sum of
   eigenvector components and returns a finite field, the common value of the
   snapshots when they agree.  Stated for residuals other than zero, whose overlap
   matrix has one lowest eigenvalue with a definite eigenspace. *)
C8_IdenticalResidualsNormalize ==
    (pc = "recompute" /\ rp.history = 3 /\ IdenticalResiduals) =>
        /\ IsFinite(norm) /\ norm[1] # 0
        /\ IsFinite(eVars[variable_n])
        /\ (pastVariables_n[1] = pastVariables_n[2]
            /\ pastVariables_n[2] = pastVariables_n[3]) =>
              eVars[variable_n] = pastVariables_n[1]

(* C9: below a full history mixDIIS does a plain mixing step with the latest
   snapshot and neither diagonalizes nor extrapolates; a diagonalization happens
   only with exactly history-depth residuals. *)
C9_PlainStepBelowFullHistory ==
    [][/\ (pc = "branch" /\ Len(pastResiduals) < rp.history) =>
             /\ eVars' = mixPlain(eVars, back(pastVariables_n), backTau)
             /\ eVars'[variable_n] =
                   LinearMix(eVars[variable_n], back(pastVariables_n))
             /\ nDiag' = nDiag /\ norm' = norm /\ weight' = weight
       /\ (nDiag' # nDiag) => (pc = "branch" /\ Len(pastResiduals) = rp.history)]_vars

C9_FellBack ==
    /\ pc = "recompute"
    /\ rp.vectorExtrapolationMethod = "DIIS"
    /\ Len(pastResiduals) < rp.history
    /\ eVars[variable_n] # back(pastVariables_n)

(* C10: when the components of column 0 have a non-zero sum, the weights mixDIIS
   applies to the snapshots and residuals sum to 1. *)
C10_WeightsSumToOne ==
    (weight # <<>> /\ IsFinite(norm) /\ norm[1] # 0) =>
        RSum(weight, Len(weight)) = R(1)

C10_UnequalWeights ==
    /\ Len(weight) = MaxHist
    /\ IsFinite(norm) /\ norm[1] # 0
    /\ weight[1] # weight[2]

(* the n x n block of overlap, n the number of residuals, holds the inner products
   of the residuals that are cached now, set since the history was last reset *)
OverlapBlockCurrent ==
    \A i, j \in 0..(Len(pastResiduals) - 1) :
        /\ <<i, j>> \in overlapFresh
        /\ overlap[i, j] = overlapResiduals(pastResiduals[i + 1], pastResiduals[j + 1])
        /\ overlap[i, j] = overlap[j, i]

OverlapDiagonalNonNegative ==
    \A i \in 0..(Len(pastResiduals) - 1) : RGeqZero(overlap[i, i])

FiniteResiduals == \A j \in 1..Len(pastResiduals) : IsFinite(pastResiduals[j])

OverlapSetIncrementally ==
    /\ pc = "overlap" =>
          \A i, j \in 0..(rp.history - 1) :
              (i # Len(pastResiduals) - 1 /\ j # Len(pastResiduals) - 1) =>
                  overlap'[i, j] = overlap[i, j]
    /\ overlap' # overlap => pc = "overlap"

(* the entries left by the cycle before the reset, r0*r1 and r1*r1, show two equal
   residuals other than zero: their overlap matrix has the one lowest eigenvector
   (1, -1), up to scale *)
AfterEqualResiduals ==
    /\ rp.history = 2 /\ Len(pastResiduals) = 1
    /\ <<1, 1>> \notin overlapFresh
    /\ IsFinite(overlap[1, 1]) /\ overlap[1, 1] # R(0)
    /\ overlap[0, 1] = overlap[1, 1]

(* C11 as stated, for the update that follows a reset after an extrapolation on two
   equal residuals: the block holds the current inner products, symmetric, none of
   them set before the reset, and every diagonal entry of the block is
   non-negative. *)
C11_OverlapBlockNonNegative ==
    (pc = "branch" /\ AfterEqualResiduals) =>
        (OverlapBlockCurrent /\ OverlapDiagonalNonNegative)

(* C11: after every overlap update the n x n block holds the inner products of
   the current residuals, symmetric, none of them set before the last reset, and an
   update sets only row n-1 and column n-1; the diagonal entries of the block are
   non-negative as long as the residuals are finite. *)
C11_OverlapBlockIsCurrent ==
    /\ [](pc # "overlap" =>
            /\ OverlapBlockCurrent
            /\ FiniteResiduals => OverlapDiagonalNonNegative)
    /\ [][OverlapSetIncrementally]_vars

C11_BlockRefilledAfterReset ==
    /\ pc = "branch"
    /\ rp.history = MaxHist
    /\ scfCounter >= rp.history
    /\ Len(pastResiduals) = 1
    /\ overlap[0, 0] # R(0) /\ IsFinite(overlap[0, 0])
    /\ overlap[0, 1] # Unset /\ overlap[0, 1] # overlap[0, 0]

AllStatesInOrder == [i \in 1..NStates |-> i - 1]

FreezeProtocolStep ==
    /\ solved' # solved =>
          \/ pc = "freeze" /\ solved' = <<>> /\ fixed_n'
          \/ pc = "bands" /\ fixed_n /\ fixed_n' /\ Len(solved') = Len(solved) + 1
    /\ pc' = "energy" => (pc = "bands" /\ solved = AllStatesInOrder /\ ~fixed_n')
    /\ pc = "energy" => (~fixed_n /\ pc' = "check" /\ solved' = AllStatesInOrder)
    /\ (E' # E \/ pc' = "check") => (pc = "energy" /\ ~fixed_n)

(* C12: every outer iteration runs freeze, the solves, unfreeze, the energy, in
   this order: a BandMinimizer solve runs only with fixed_n true, between the
   freeze and the energy of a pass each state 0..nStates-1 is solved exactly once,
   and the energy of the convergence check is computed only with fixed_n false,
   after all the solves of the pass. *)
C12_FreezeProtocol ==
    /\ [](pc = "bands" => fixed_n)
    /\ [](pc \in {"check", "mix"} => (~fixed_n /\ solved = AllStatesInOrder))
    /\ [][FreezeProtocolStep]_vars

C12_SecondPassSolved ==
    /\ pc = "check"
    /\ scfCounter = 1
    /\ solved = AllStatesInOrder
    /\ ~fixed_n

(* the outer iterations that ended without passing the convergence check *)
IterationsMixed == IF pc = "next" THEN scfCounter + 1 ELSE scfCounter

EdensityStep ==
    /\ nEdensity' # nEdensity =>
          /\ pc = "recompute" /\ pc' = "next"
          /\ rp.mixedVariable = "density"
          /\ nEdensity' = nEdensity + 1
    /\ (pc = "recompute" /\ rp.mixedVariable = "density") => nEdensity' = nEdensity + 1
    /\ pc' = "recompute" => pc \in {"mix", "branch"}
    /\ pc = "next" => pc' = "for"

(* C13: the loop calls EdensityAndVscloc only when densities are mixed: then once
   in every iteration that does not pass the convergence check, right after the
   mixing and before the next iteration begins; never when potentials are mixed;
   and not in the iteration that passes the convergence check. *)
C13_EdensityOnlyForDensity ==
    /\ [](nEdensity = IF rp.mixedVariable = "density" THEN IterationsMixed ELSE 0)
    /\ [][EdensityStep]_vars

C13_ConvergedAfterTwoCalls ==
    /\ pc = "done" /\ convergedLog
    /\ rp.mixedVariable = "density"
    /\ scfCounter = 2 /\ nPasses = 3
    /\ nEdensity = 2

(* C14: wherever .back() of pastVariables_n or pastVariables_tau is taken, at the
   call of mixPlain in SCF::minimize, at the residual of mixDIIS and at the call of
   mixPlain in mixDIIS, the sequence is not empty. *)
C14_BackOnNonEmpty ==
    /\ pc = "mix" => pastVariables_n # <<>>
    /\ (pc = "mix" /\ rp.vectorExtrapolationMethod = "plainMixing") =>
          pastVariables_tau # <<>>
    /\ (pc = "branch" /\ NotFullYet) =>
          (pastVariables_n # <<>> /\ pastVariables_tau # <<>>)

(* residual j and snapshot j were cached by the same outer iteration, and the
   residual is what that iteration's energy evaluation left in the mixed variable
   minus the snapshot *)
AlignedUpTo(n) ==
    \A j \in 1..n :
        /\ resIter[j] = snapIter[j]
        /\ pastResiduals[j] = RSub(outputs[resIter[j] + 1], pastVariables_n[j])

(* C15: with DIIS the residuals never outnumber the snapshots and each is aligned
   with the snapshot of its index; where mixDIIS forms the weighted combination,
   both sequences hold exactly history-depth entries. *)
C15_SnapshotsAndResidualsAligned ==
    rp.vectorExtrapolationMethod = "DIIS" =>
        /\ Len(pastResiduals) <= Len(pastVariables_n)
        /\ Len(resIter) = Len(pastResiduals) /\ Len(snapIter) = Len(pastVariables_n)
        /\ AlignedUpTo(Len(pastResiduals))
        /\ (pc = "branch" /\ ~NotFullYet) =>
              (Len(pastResiduals) = rp.history /\ Len(pastVariables_n) = rp.history)

C15_FullHistoryAligned ==
    /\ pc = "branch" /\ ~NotFullYet
    /\ rp.history = MaxHist
    /\ snapIter = [j \in 1..MaxHist |-> j - 1]
    /\ pastVariables_n[1] # pastVariables_n[2]
    /\ pastResiduals[1] # pastResiduals[2]

(* the outer iterations whose mixing step has been done *)
IterationsMixedThrough ==
    IF pc \in {"recompute", "next"} THEN scfCounter + 1 ELSE scfCounter

ExtrapolationDue == (scfCounter + 1) % rp.history = 0

ExtrapolationStep ==
    /\ (pc = "branch" /\ ExtrapolationDue) => nDiag' = nDiag + 1
    /\ (pc = "branch" /\ ~ExtrapolationDue) =>
          /\ nDiag' = nDiag
          /\ eVars' = mixPlain(eVars, back(pastVariables_n), backTau)
    /\ nDiag' # nDiag => (pc = "branch" /\ ExtrapolationDue)
    /\ (pc = "mix" /\ rp.vectorExtrapolationMethod = "DIIS") => pc' = "overlap"
    /\ pc = "overlap" => pc' = "branch"

(* C16: with DIIS, the iteration numbered scfCounter that does not pass the
   convergence check diagonalizes and extrapolates exactly when
   (scfCounter + 1) mod history = 0 and otherwise does a plain mixing step, so
   that after m mixing steps m div history extrapolations have been done. *)
C16_ExtrapolationEveryHistoryIterations ==
    /\ [](rp.vectorExtrapolationMethod = "DIIS" =>
            nDiag = IterationsMixedThrough \div rp.history)
    /\ [][ExtrapolationStep]_vars

C16_PlainStepAfterExtrapolation ==
    /\ pc = "recompute"
    /\ rp.vectorExtrapolationMethod = "DIIS"
    /\ rp.history = MaxHist
    /\ scfCounter = rp.history
    /\ nDiag = 1

====
